---- MODULE Spec2Model ----
(***************************************************************************)
(* Model of the MindWell chat front-ends (src/app.py, src/final.py,        *)
(* src/total-final.py): one browser session driving one of the three       *)
(* scripts.  A script run is sequential; the only places where the         *)
(* environment acts are the HTTP calls (health probe, generation POST,      *)
(* the lines of a streamed reply) and the session's stop_generation flag.   *)
(*                                                                         *)
(* Strings are TLA+ strings; "".join and f-strings are \o.  Timestamps of   *)
(* Turns are display text only and are left out of the Turn records.        *)
(*                                                                         *)
(* A fourth variant, "history", is a client of src/history.py: it calls the *)
(* methods of one ChatHistoryManager in any order with any arguments.  Its  *)
(* rows carry the timestamp column, which the queries of that class order   *)
(* by; the three scripts never read the column and their rows leave it out. *)
(* A fifth, "lexical", applies extract_topics or determine_emotional_state  *)
(* of src/total-final.py to one argument list.  Sentiments are integers in  *)
(* units of 10^-7, so that 0.2000001 is 2000001.                            *)
(*                                                                         *)
(* SharedSpec follows two browser sessions of src/total-final.py on one     *)
(* database file; in Spec the second session never starts.                  *)
(***************************************************************************)
EXTENDS Integers, Sequences, FiniteSets, TLC

VARIABLES
    variant,               \* the program: "app", "final", "total" (scripts), "history"
                           \* or "lexical"
    pc,                    \* position of the script: "idle", "sending", "posting", "streaming"
    messages,              \* st.session_state.messages (role, content)
    model_ready,           \* st.session_state.model_ready
    last_probe,            \* result of the latest check_ollama_status(): "none", "ok", "failed"
    message,               \* the user_input handed to send_message / stream_response
    requests,              \* prompts POSTed to OLLAMA_API_URL by the latest call, in order
    outcome,               \* how the latest generate call returned
    cycles,                \* submissions handled so far in this session
    stop_generation,       \* st.session_state.stop_generation
    retries,               \* send_message's retries argument of the pending attempt
    sleeps,                \* time.sleep() arguments of the latest send_message call, in order
    attempts,              \* what the backend answered to each POST of that call, in order
    conversation_id,       \* st.session_state.conversation_id (0: the script has no store)
    conversations,         \* table conversations; row i has id i
    dbMessages,            \* table messages, in insertion (id) order
    uuids,                 \* number of uuid.uuid4() values drawn so far
    stop_button,           \* stream_response's local stop_button
    accumulated_response,  \* stream_response's local accumulated_response
    current_response,      \* text shown in response_container
    lines,                 \* lines response.iter_lines() has yielded to the pending call
    streamed,              \* lines streamed to this session so far, over all calls
    faults,                \* exceptions that ended streamed calls of this session, in order
    clock,                 \* CURRENT_TIMESTAMP of the latest INSERT of a ChatHistoryManager
    result,                \* the latest call of a ChatHistoryManager or analysis method
                           \* and what it returned
    parked                 \* st.session_state of a second browser session of the script
                           \* on the same database, while the first one is followed

appCall == <<retries, sleeps, attempts>>
store == <<conversation_id, conversations, dbMessages, uuids>>
streamCall == <<stop_button, accumulated_response, current_response, lines>>
budget == <<streamed, faults>>
manager == <<clock, result>>
program == <<variant, parked>>

vars == <<program, pc, messages, model_ready, last_probe, message, requests,
          outcome, cycles, stop_generation, appCall, store, streamCall, budget,
          manager>>

----------------------------------------------------------------------------
(* Bounds of the model *)

MaxCycles == 2      \* submissions per session
MaxLines == 2       \* streamed lines per session
MaxConvs == 1       \* "New Conversation" / "Clear Chat" clicks per session
MaxFaults == 1      \* streamed calls per session that end in an exception
MaxRows == 3        \* rows a ChatHistoryManager client inserts, over both tables
MaxWords == 3       \* words of a text handed to extract_topics by its client

(* Program constants *)

MAX_RETRIES == 3
ContextTurns == 5

UserInputs == {"hello"}
Tokens == {"a", "b"}              \* 'response' fields of streamed fragments
Replies == {"fine"}               \* 'response' field of a blocking completion

RetriesExhaustedMsg == "Error: Maximum retries reached. Please try again later."
BackendUnavailableMsg == "Error: Could not connect to Ollama server. Please ensure it is running."
NoResponseMsg == "I apologize, but I couldn't generate a response."
PromptSuffix == "\n\nPlease keep your response concise and focused, ideally under 3-4 sentences unless more detail is specifically requested. gimme in points when required , move to second line when need, be precise, start with question about question, use <br> after every point, "

\* str(e) of the exceptions the HTTP layer and the JSON parser raise
ExcText(e) ==
    CASE e = "Timeout" -> "Read timed out."
      [] e = "ConnectionError" -> "Connection refused"
      [] e = "ChunkedEncodingError" -> "Connection broken"
      [] e = "JSONDecodeError" -> "Expecting value: line 1 column 1 (char 0)"

\* f"Error: {str(e)}"
ErrorText(e) == "Error: " \o ExcText(e)

----------------------------------------------------------------------------
(* Helpers *)

Last(s) == s[Len(s)]

Turn(role, content) == [role |-> role, content |-> content]

RECURSIVE Join(_)
\* "".join(parts)
Join(parts) == IF parts = <<>> THEN "" ELSE Head(parts) \o Join(Tail(parts))

RECURSIVE JoinWith(_, _)
\* sep.join(parts)
JoinWith(sep, parts) ==
    IF parts = <<>> THEN ""
    ELSE IF Len(parts) = 1 THEN parts[1]
    ELSE parts[1] \o sep \o JoinWith(sep, Tail(parts))

\* s[-n:]
LastN(s, n) == IF Len(s) <= n THEN s ELSE SubSeq(s, Len(s) - n + 1, Len(s))

\* A line of the stream: an empty keep-alive line, a JSON object with a
\* 'response' field, or a JSON object without one (get's default "")
Fragment(tok) == [kind |-> "fragment", response |-> tok]
EmptyLine == [kind |-> "empty", response |-> ""]
NoFieldLine == [kind |-> "nofield", response |-> ""]

HasStore == variant \in {"final", "total"}

\* a call returning None, and a call raising nothing
None == <<>>
NoError == ""

\* the record of a call: method, arguments, exception raised, value returned
Call(op, arg, raised, value) ==
    [op |-> op, arg |-> arg, raised |-> raised, value |-> value]

\* the second session before its first script run
NotStarted == [started |-> FALSE]

\* no call of an analysis or ChatHistoryManager method since the buffer changed
NoCall == Call("none", <<>>, NoError, None)

\* chat_input's value in a run that no submission triggered
NoInput == ""

----------------------------------------------------------------------------
(* src/app.py: blocking generation with retries *)

\* f"{'User' if msg['role'] == 'user' else 'Assistant'}: {msg['content']}"
ContextLine(msg) ==
    (IF msg.role = "user" THEN "User" ELSE "Assistant") \o ": " \o msg.content

\* the prompt send_message builds from st.session_state.messages and message
BuildPrompt(msgs, m) ==
    LET window == LastN(msgs, ContextTurns)
        context == JoinWith("\n", [i \in 1..Len(window) |-> ContextLine(window[i])])
    IN "Context:\n" \o context \o "\n\nUser: " \o m \o "\nAssistant:"

\* the script's top-level run: readiness gate, then the chat input block up to
\* the call of send_message
app_run(user_input, probe) ==
    /\ variant = "app"
    /\ pc = "idle"
    /\ user_input # NoInput => cycles < MaxCycles
    /\ last_probe' = IF model_ready THEN last_probe
                     ELSE IF probe THEN "ok" ELSE "failed"
    /\ model_ready' = (model_ready \/ probe)
    /\ IF (model_ready \/ probe) /\ user_input # NoInput
       THEN /\ messages' = Append(messages, Turn("user", user_input))
            /\ message' = user_input
            /\ retries' = 0
            /\ requests' = <<>>
            /\ sleeps' = <<>>
            /\ attempts' = <<>>
            /\ cycles' = cycles + 1
            /\ pc' = "sending"
       ELSE UNCHANGED <<messages, message, requests, appCall, cycles, pc>>
    /\ UNCHANGED <<manager, program, outcome, stop_generation, store, streamCall, budget>>

\* send_message returns ai_response: the chat input block appends the
\* assistant Turn and reruns the script (the gate finds model_ready set)
app_reply(ai_response, how) ==
    /\ messages' = Append(messages, Turn("assistant", ai_response))
    /\ outcome' = how
    /\ pc' = "idle"
    /\ message' = ""
    /\ retries' = 0
    /\ UNCHANGED <<manager, program, model_ready, last_probe, cycles, stop_generation,
                   store, streamCall, budget>>

\* (mutant) the entry test written `if retries > MAX_RETRIES`
RetriesLeft_OffByOne == retries <= MAX_RETRIES

\* the test at send_message's entry: `if retries >= MAX_RETRIES` is false
RetriesLeft == retries < MAX_RETRIES

\* requests.post(OLLAMA_API_URL, json={..., "prompt": prompt, ...}) answered by
\* status 200, another status, or an exception
app_post(answer) ==
    /\ variant = "app"
    /\ pc = "sending"
    /\ RetriesLeft
    /\ requests' = Append(requests, BuildPrompt(messages, message))
    /\ attempts' = Append(attempts, answer)

\* entry of send_message with retries >= MAX_RETRIES
send_message_exhausted ==
    /\ variant = "app"
    /\ pc = "sending"
    /\ ~RetriesLeft
    /\ UNCHANGED <<requests, sleeps, attempts>>
    /\ app_reply(RetriesExhaustedMsg, "exhausted")

\* status 200; body is the 'response' field, or NoInput when the JSON has none
send_message_status200(body) ==
    /\ app_post("200")
    /\ UNCHANGED sleeps
    /\ app_reply(IF body = NoInput THEN NoResponseMsg ELSE body, "ok")

\* (mutant) every retry waits as long as the one after a timeout
send_message_non200_Sleeps2 ==
    /\ app_post("non200")
    /\ sleeps' = Append(sleeps, 2)
    /\ retries' = retries + 1
    /\ UNCHANGED <<manager, program, pc, messages, model_ready, last_probe, message, outcome,
                   cycles, stop_generation, store, streamCall, budget>>

\* any other status: sleep 1, then send_message(message, retries + 1)
send_message_non200 ==
    /\ app_post("non200")
    /\ sleeps' = Append(sleeps, 1)
    /\ retries' = retries + 1
    /\ UNCHANGED <<manager, program, pc, messages, model_ready, last_probe, message, outcome,
                   cycles, stop_generation, store, streamCall, budget>>

\* requests.exceptions.Timeout: sleep 2, then send_message(message, retries + 1)
send_message_timeout ==
    /\ app_post("Timeout")
    /\ sleeps' = Append(sleeps, 2)
    /\ retries' = retries + 1
    /\ UNCHANGED <<manager, program, pc, messages, model_ready, last_probe, message, outcome,
                   cycles, stop_generation, store, streamCall, budget>>

\* (mutant) ConnectionError handled like Timeout: sleep and retry
send_message_connection_error_Retried ==
    /\ app_post("ConnectionError")
    /\ sleeps' = Append(sleeps, 2)
    /\ retries' = retries + 1
    /\ UNCHANGED <<manager, program, pc, messages, model_ready, last_probe, message, outcome,
                   cycles, stop_generation, store, streamCall, budget>>

\* requests.exceptions.ConnectionError
send_message_connection_error ==
    /\ app_post("ConnectionError")
    /\ UNCHANGED sleeps
    /\ app_reply(BackendUnavailableMsg, "unavailable")

\* (mutant) no `except Exception`: the exception ends the script run
send_message_exception_Raises(e) ==
    /\ app_post(e)
    /\ pc' = "idle"
    /\ outcome' = "error"
    /\ message' = ""
    /\ retries' = 0
    /\ UNCHANGED <<manager, program, messages, model_ready, last_probe, cycles,
                   stop_generation, sleeps, store, streamCall, budget>>

\* any other exception, such as response.json() failing on a 200 body
send_message_exception(e) ==
    /\ app_post(e)
    /\ UNCHANGED sleeps
    /\ app_reply(ErrorText(e), "error")

\* "Clear Chat" clicked: the gate (probe), the sidebar block, and the rerun's
\* gate (reprobe)
app_clear_chat(probe, reprobe) ==
    /\ variant = "app"
    /\ pc = "idle"
    /\ model_ready \/ probe
    /\ messages' = <<>>
    /\ model_ready' = reprobe
    /\ last_probe' = IF reprobe THEN "ok" ELSE "failed"
    /\ UNCHANGED <<manager, program, pc, message, requests, outcome, cycles, stop_generation,
                   appCall, store, streamCall, budget>>

----------------------------------------------------------------------------
(* src/total-final.py, src/final.py: the analysis functions *)

Uppercase == "ABCDEFGHIJKLMNOPQRSTUVWXYZ"
Lowercase == "abcdefghijklmnopqrstuvwxyz"
Digits == "0123456789"

\* the characters of a string
Chars(text) == {SubSeq(text, i, i) : i \in 1..Len(text)}

\* \w and \s of the regular expression, over ASCII
WordChars == Chars(Uppercase) \cup Chars(Lowercase) \cup Chars(Digits) \cup {"_"}
Whitespace == {" ", "\n", "\t"}

\* the characters str.lower() changes, each with its lower-case letter
LowerOf ==
    [c \in Chars(Uppercase) |->
        LET i == CHOOSE k \in 1..Len(Uppercase) : SubSeq(Uppercase, k, k) = c
        IN SubSeq(Lowercase, i, i)]

\* str.lower() of one character
LowerChar(c) == IF c \in DOMAIN LowerOf THEN LowerOf[c] ELSE c

RECURSIVE Lower(_)
\* text.lower(), character by character (the text is halved rather than
\* shortened by one, which keeps the evaluation shallow)
Lower(text) ==
    IF Len(text) = 0 THEN ""
    ELSE IF Len(text) = 1 THEN LowerChar(text)
    ELSE LET half == Len(text) \div 2
         IN Lower(SubSeq(text, 1, half)) \o Lower(SubSeq(text, half + 1, Len(text)))

RECURSIVE Concat(_)
\* the string made of a sequence of characters
Concat(chars) ==
    IF Len(chars) = 0 THEN ""
    ELSE IF Len(chars) = 1 THEN chars[1]
    ELSE LET half == Len(chars) \div 2
         IN Concat(SubSeq(chars, 1, half)) \o Concat(SubSeq(chars, half + 1, Len(chars)))

\* re.sub(r'[^\w\s]', '', text)
KeptChars == WordChars \cup Whitespace
StripPunctuation(text) == Concat(SelectSeq(text, LAMBDA c : c \in KeptChars))

RECURSIVE SplitFrom(_, _, _)
\* the words of text from position from on, spaces being the positions of
\* its whitespace: the next word starts at the first position outside spaces
\* and ends before the next one inside
SplitFrom(text, spaces, from) ==
    LET n == Len(text)
        first == CHOOSE i \in from..(n + 1) :
                    /\ i = n + 1 \/ i \notin spaces
                    /\ \A j \in from..(i - 1) : j \in spaces
        end == CHOOSE i \in first..(n + 1) :
                    /\ i = n + 1 \/ i \in spaces
                    /\ \A j \in first..(i - 1) : j \notin spaces
    IN IF first = n + 1 THEN <<>>
       ELSE <<SubSeq(text, first, end - 1)>> \o SplitFrom(text, spaces, end)

\* text.split()
Split(text) ==
    SplitFrom(text, {i \in 1..Len(text) : SubSeq(text, i, i) \in Whitespace}, 1)

stop_words ==
    {"i", "me", "my", "myself", "we", "our", "ours", "ourselves", "you",
     "you're", "you've", "you'll", "you'd", "your", "yours", "yourself",
     "yourselves", "he", "him", "his", "himself", "she", "she's", "her",
     "hers", "herself", "it", "it's", "its", "itself", "they", "them",
     "their", "theirs", "themselves", "what", "which", "who", "whom",
     "this", "that", "that'll", "these", "those", "am", "is", "are",
     "was", "were", "be", "been", "being", "have", "has", "had",
     "having", "do", "does", "did", "doing", "a", "an", "the", "and",
     "but", "if", "or", "because", "as", "until", "while", "of", "at",
     "by", "for", "with", "about", "against", "between", "into",
     "through", "during", "before", "after", "above", "below", "to",
     "from", "up", "down", "in", "out", "on", "off", "over", "under",
     "again", "further", "then", "once"}

\* (mutant) the length test written `len(word) >= 3`
KeptWords_AtLeast3(words) ==
    SelectSeq(words, LAMBDA w : w \notin stop_words /\ Len(w) >= 3)

\* [word for word in words if word not in stop_words and len(word) > 3]
KeptWords(words) == SelectSeq(words, LAMBDA w : w \notin stop_words /\ Len(w) > 3)

\* Counter(words)[w]
Count(words, w) == Cardinality({i \in 1..Len(words) : words[i] = w})

RECURSIVE CounterKeys(_)
\* the keys of Counter(words), in insertion order: the order of first occurrence
CounterKeys(words) ==
    IF words = <<>> THEN <<>>
    ELSE LET before == CounterKeys(SubSeq(words, 1, Len(words) - 1))
             w == words[Len(words)]
         IN IF \E i \in 1..Len(before) : before[i] = w THEN before
            ELSE Append(before, w)

\* (mutant) equal counts ordered by last insertion first
most_common_TiesReversed(words, n) ==
    LET keys == CounterKeys(words)
        Rank(i) == Cardinality({j \in 1..Len(keys) :
                      \/ Count(words, keys[j]) > Count(words, keys[i])
                      \/ Count(words, keys[j]) = Count(words, keys[i]) /\ j > i}) + 1
        sorted == [r \in 1..Len(keys) |->
                      keys[CHOOSE i \in 1..Len(keys) : Rank(i) = r]]
    IN IF n <= 0 THEN <<>>
       ELSE SubSeq(sorted, 1, IF n < Len(sorted) THEN n ELSE Len(sorted))

\* [word for word, _ in Counter(words).most_common(n)]: heapq.nlargest on the
\* items by count, equal counts in insertion order
most_common(words, n) ==
    LET keys == CounterKeys(words)
        Rank(i) == Cardinality({j \in 1..Len(keys) :
                      \/ Count(words, keys[j]) > Count(words, keys[i])
                      \/ Count(words, keys[j]) = Count(words, keys[i]) /\ j < i}) + 1
        sorted == [r \in 1..Len(keys) |->
                      keys[CHOOSE i \in 1..Len(keys) : Rank(i) = r]]
    IN IF n <= 0 THEN <<>>
       ELSE SubSeq(sorted, 1, IF n < Len(sorted) THEN n ELSE Len(sorted))

extract_topics(text, top_n) ==
    most_common(KeptWords(Split(StripPunctuation(Lower(text)))), top_n)

\* EMOTION_RANGES in the dict's order, sentiments in units of 10^-7
EMOTION_RANGES ==
    <<[emotion |-> "Very Happy", low |-> 6000000, high |-> 10000000],
      [emotion |-> "Happy", low |-> 2000000, high |-> 6000000],
      [emotion |-> "Neutral", low |-> -2000000, high |-> 2000000],
      [emotion |-> "Sad", low |-> -6000000, high |-> -2000000],
      [emotion |-> "Very Sad", low |-> -10000000, high |-> -6000000]>>

\* the first range of the dict with low <= sentiment <= high, else "Neutral"
determine_emotional_state(sentiment) ==
    LET hits == {i \in 1..Len(EMOTION_RANGES) :
                    /\ EMOTION_RANGES[i].low <= sentiment
                    /\ sentiment <= EMOTION_RANGES[i].high}
    IN IF hits = {} THEN "Neutral"
       ELSE EMOTION_RANGES[CHOOSE i \in hits : \A j \in hits : i <= j].emotion

\* the default of extract_topics' top_n
DefaultTopN == 5

\* the polarity lexicon of the TextBlob library, in units of 10^-7: the words
\* of the session's texts it scores
Lexicon == [w \in {"broken", "fine"} |-> IF w = "broken" THEN -4000000 ELSE 4166667]

RECURSIVE Sum(_)
\* sum(numbers)
Sum(numbers) == IF numbers = <<>> THEN 0 ELSE Head(numbers) + Sum(Tail(numbers))

\* TextBlob(text).sentiment.polarity: the mean polarity of the scored words,
\* 0.0 when there is none
analyze_sentiment(text) ==
    LET words == Split(StripPunctuation(Lower(text)))
        scored == SelectSeq(words, LAMBDA w : w \in DOMAIN Lexicon)
    IN IF scored = <<>> THEN 0
       ELSE Sum([i \in 1..Len(scored) |-> Lexicon[scored[i]]]) \div Len(scored)

RECURSIVE GCD(_, _)
GCD(a, b) == IF b = 0 THEN a ELSE GCD(b, a % b)

\* a / b for b # 0, as the fraction in lowest terms
Quotient(a, b) == [num |-> a \div GCD(a, b), den |-> b \div GCD(a, b)]

\* [msg["content"] for msg in messages], restricted to a set of roles
Contents(msgs, roles) ==
    LET chosen == SelectSeq(msgs, LAMBDA m : m.role \in roles)
    IN [i \in 1..Len(chosen) |-> chosen[i].content]

\* analyze_conversation from the line after the `if not messages` test on
Analysis(msgs, cid) ==
    LET arg == [messages |-> msgs, conversation_id |-> cid]
        user_messages == Contents(msgs, {"user"})
        full_text == IF variant = "total"
                     THEN JoinWith(" ", user_messages)
                     ELSE JoinWith(" ", Contents(msgs, {"user", "assistant"}))
        sentiment == analyze_sentiment(full_text)
        message_lengths == [i \in 1..Len(msgs) |-> Len(Split(msgs[i].content))]
        analysis ==
            IF variant = "total"
            THEN [sentiment |-> sentiment,
                  emotional_state |-> determine_emotional_state(sentiment),
                  topics |-> extract_topics(full_text, DefaultTopN),
                  message_lengths |-> message_lengths,
                  total_messages |-> Len(msgs),
                  user_message_count |-> Len(user_messages)]
            ELSE [sentiment |-> sentiment,
                  topics |-> extract_topics(full_text, DefaultTopN),
                  message_lengths |-> message_lengths,
                  total_messages |-> Len(msgs)]
    IN IF Len(message_lengths) = 0
       THEN Call("analyze_conversation", arg, "ZeroDivisionError", None)
       ELSE Call("analyze_conversation", arg, NoError,
                 <<[avg_message_length |->
                       Quotient(Sum(message_lengths), Len(message_lengths))]
                   @@ analysis>>)

\* (mutant) no `if not messages: return None`
analyze_conversation_NoGuard(msgs, cid) == Analysis(msgs, cid)

\* analyze_conversation on the buffer msgs, the active conversation being cid
analyze_conversation(msgs, cid) ==
    IF msgs = <<>>
    THEN Call("analyze_conversation", [messages |-> msgs, conversation_id |-> cid],
              NoError, None)
    ELSE Analysis(msgs, cid)

----------------------------------------------------------------------------
(* src/final.py, src/total-final.py: streamed generation with a store *)

Null == "NULL"

\* (mutant) the id of the latest existing row is returned instead of lastrowid
start_new_conversation_ReusesId(session_id) ==
    /\ conversations' = Append(conversations,
                               [id |-> Len(conversations) + 1,
                                session_id |-> session_id,
                                sentiment |-> Null,
                                topics |-> Null,
                                emotional_state |-> Null])
    /\ conversation_id' = Len(conversations)

\* (mutant) an id is handed out although the INSERT did not happen
start_new_conversation_NoInsert(session_id) ==
    /\ conversations' = conversations
    /\ conversation_id' = Len(conversations) + 1

\* INSERT INTO conversations (session_id) VALUES (?); returns cursor.lastrowid
start_new_conversation(session_id) ==
    /\ conversations' = Append(conversations,
                               [id |-> Len(conversations) + 1,
                                session_id |-> session_id,
                                sentiment |-> Null,
                                topics |-> Null,
                                emotional_state |-> Null])
    /\ conversation_id' = Len(conversations) + 1

\* (mutant) INSERT OR REPLACE that lands on the latest row
save_message_ReplacesLast(db, role, content) ==
    IF db = <<>>
    THEN <<[conversation_id |-> conversation_id, role |-> role, content |-> content]>>
    ELSE [db EXCEPT ![Len(db)] = [conversation_id |-> conversation_id,
                                  role |-> role, content |-> content]]

\* INSERT INTO messages (conversation_id, role, content) VALUES (?, ?, ?)
save_message(db, role, content) ==
    Append(db, [conversation_id |-> conversation_id, role |-> role, content |-> content])

\* the prompt stream_response posts
StreamPrompt(m) == IF variant = "total" THEN m \o PromptSuffix ELSE m

\* the test at the top of stream_response's loop body (total-final.py only)
StopRequested == variant = "total" /\ (stop_button \/ stop_generation)

\* (mutant) no `return` after the failed probe's st.error
chat_run_IgnoresProbe(user_input, probe, button) ==
    /\ HasStore
    /\ pc = "idle"
    /\ user_input # NoInput => cycles < MaxCycles
    /\ last_probe' = IF probe THEN "ok" ELSE "failed"
    /\ model_ready' = TRUE
    /\ IF user_input # NoInput
       THEN /\ messages' = Append(messages, Turn("user", user_input))
            /\ dbMessages' = save_message(dbMessages, "user", user_input)
            /\ message' = user_input
            /\ requests' = <<>>
            /\ accumulated_response' = <<>>
            /\ stop_button' = (variant = "total" /\ button)
            /\ cycles' = cycles + 1
            /\ pc' = "posting"
       ELSE UNCHANGED <<messages, dbMessages, message, requests,
                        accumulated_response, stop_button, cycles, pc>>
    /\ result' = IF messages' # messages THEN NoCall ELSE result
    /\ UNCHANGED <<clock, program, outcome, stop_generation, appCall, conversation_id,
                   conversations, uuids, current_response, lines, budget>>

\* (mutant) a submission handled while an earlier call is still pending
chat_run_Reentrant(user_input, probe, button) ==
    /\ HasStore
    /\ pc \in {"idle", "streaming"}
    /\ user_input # NoInput => cycles < MaxCycles
    /\ last_probe' = IF probe THEN "ok" ELSE "failed"
    /\ model_ready' = (model_ready \/ probe)
    /\ IF probe /\ user_input # NoInput
       THEN /\ messages' = Append(messages, Turn("user", user_input))
            /\ dbMessages' = save_message(dbMessages, "user", user_input)
            /\ message' = user_input
            /\ requests' = <<>>
            /\ accumulated_response' = <<>>
            /\ stop_button' = (variant = "total" /\ button)
            /\ cycles' = cycles + 1
            /\ pc' = "posting"
       ELSE UNCHANGED <<messages, dbMessages, message, requests,
                        accumulated_response, stop_button, cycles, pc>>
    /\ result' = IF messages' # messages THEN NoCall ELSE result
    /\ UNCHANGED <<clock, program, outcome, stop_generation, appCall, conversation_id,
                   conversations, uuids, current_response, lines, budget>>

\* run() showing the Chat page: display_chat_page from the health probe to
\* stream_response's entry (button is what st.button("Stop Generation") returns)
chat_run(user_input, probe, button) ==
    /\ HasStore
    /\ pc = "idle"
    /\ user_input # NoInput => cycles < MaxCycles
    /\ last_probe' = IF probe THEN "ok" ELSE "failed"
    /\ model_ready' = (model_ready \/ probe)
    /\ IF probe /\ user_input # NoInput
       THEN /\ messages' = Append(messages, Turn("user", user_input))
            /\ dbMessages' = save_message(dbMessages, "user", user_input)
            /\ message' = user_input
            /\ requests' = <<>>
            /\ accumulated_response' = <<>>
            /\ stop_button' = (variant = "total" /\ button)
            /\ cycles' = cycles + 1
            /\ pc' = "posting"
       ELSE UNCHANGED <<messages, dbMessages, message, requests,
                        accumulated_response, stop_button, cycles, pc>>
    /\ result' = IF messages' # messages THEN NoCall ELSE result
    /\ UNCHANGED <<clock, program, outcome, stop_generation, appCall, conversation_id,
                   conversations, uuids, current_response, lines, budget>>

\* (mutant) the assistant Turn is appended to the buffer but not saved
chat_reply_NoSave(response, how, reprobe) ==
    /\ messages' = Append(messages, Turn("assistant", response))
    /\ dbMessages' = dbMessages
    /\ outcome' = how
    /\ pc' = "idle"
    /\ message' = ""
    /\ accumulated_response' = <<>>
    /\ current_response' = ""
    /\ stop_button' = FALSE
    /\ lines' = <<>>
    /\ last_probe' = IF reprobe THEN "ok" ELSE "failed"
    /\ model_ready' = (model_ready \/ reprobe)
    /\ UNCHANGED <<manager, program, cycles, appCall, conversation_id, conversations, uuids>>

\* stream_response returns response: display_chat_page appends and saves the
\* assistant Turn and reruns the script, which probes the backend again
chat_reply(response, how, reprobe) ==
    /\ messages' = Append(messages, Turn("assistant", response))
    /\ dbMessages' = save_message(dbMessages, "assistant", response)
    /\ outcome' = how
    /\ pc' = "idle"
    /\ message' = ""
    /\ accumulated_response' = <<>>
    /\ current_response' = ""
    /\ stop_button' = FALSE
    /\ lines' = <<>>
    /\ last_probe' = IF reprobe THEN "ok" ELSE "failed"
    /\ model_ready' = (model_ready \/ reprobe)
    /\ UNCHANGED <<manager, program, cycles, appCall, conversation_id, conversations, uuids>>

\* (mutant) the handler returns the text accumulated so far before the notice
chat_fault_KeepsPartial(e, reprobe) ==
    /\ Len(faults) < MaxFaults
    /\ faults' = Append(faults, e)
    /\ chat_reply(Join(accumulated_response) \o ErrorText(e), "error", reprobe)

\* stream_response ends in `except Exception as e`
chat_fault(e, reprobe) ==
    /\ Len(faults) < MaxFaults
    /\ faults' = Append(faults, e)
    /\ chat_reply(ErrorText(e), "error", reprobe)

\* requests.post(..., stream=True, timeout=TIMEOUT) returns a response
stream_post_ok ==
    /\ HasStore
    /\ pc = "posting"
    /\ requests' = Append(requests, StreamPrompt(message))
    /\ pc' = "streaming"
    /\ UNCHANGED <<manager, program, messages, model_ready, last_probe, message, outcome,
                   cycles, stop_generation, appCall, store, streamCall, budget>>

\* requests.post raises e
stream_post_fails(e, reprobe) ==
    /\ HasStore
    /\ pc = "posting"
    /\ requests' = Append(requests, StreamPrompt(message))
    /\ UNCHANGED <<stop_generation, streamed>>
    /\ chat_fault(e, reprobe)

\* (mutant) the break path returns an empty reply instead of the partial text
stream_stop_DropsPartial(reprobe) ==
    /\ pc = "streaming"
    /\ streamed < MaxLines
    /\ StopRequested
    /\ stop_generation' = FALSE
    /\ streamed' = streamed + 1
    /\ UNCHANGED <<requests, faults>>
    /\ chat_reply("", "stopped", reprobe)

\* (mutant) the break without `st.session_state.stop_generation = False`
stream_stop_KeepsFlag(reprobe) ==
    /\ pc = "streaming"
    /\ streamed < MaxLines
    /\ StopRequested
    /\ stop_generation' = stop_generation
    /\ streamed' = streamed + 1
    /\ UNCHANGED <<requests, faults>>
    /\ chat_reply(Join(accumulated_response), "stopped", reprobe)

\* a line arrives and the loop body finds the stop test true
stream_stop(reprobe) ==
    /\ pc = "streaming"
    /\ streamed < MaxLines
    /\ StopRequested
    /\ stop_generation' = FALSE
    /\ streamed' = streamed + 1
    /\ UNCHANGED <<requests, faults>>
    /\ chat_reply(Join(accumulated_response), "stopped", reprobe)

\* (mutant) the stop test placed after the fragment is processed
stream_fragment_TestAfter(line) ==
    /\ pc = "streaming"
    /\ streamed < MaxLines
    /\ lines' = Append(lines, line)
    /\ streamed' = streamed + 1
    /\ accumulated_response' = Append(accumulated_response, line.response)
    /\ current_response' = Join(accumulated_response')
    /\ UNCHANGED <<manager, program, pc, messages, model_ready, last_probe, message, requests,
                   outcome, cycles, stop_generation, appCall, store, stop_button,
                   faults>>

\* (mutant) the new token inserted at the front of accumulated_response
stream_fragment_Prepends(line) ==
    /\ pc = "streaming"
    /\ streamed < MaxLines
    /\ ~StopRequested
    /\ lines' = Append(lines, line)
    /\ streamed' = streamed + 1
    /\ accumulated_response' = <<line.response>> \o accumulated_response
    /\ current_response' = Join(accumulated_response')
    /\ UNCHANGED <<manager, program, pc, messages, model_ready, last_probe, message, requests,
                   outcome, cycles, stop_generation, appCall, store, stop_button,
                   faults>>

\* a non-empty line that parses arrives: its 'response' field (or "") is
\* accumulated and the partial text is shown
stream_fragment(line) ==
    /\ pc = "streaming"
    /\ streamed < MaxLines
    /\ ~StopRequested
    /\ lines' = Append(lines, line)
    /\ streamed' = streamed + 1
    /\ accumulated_response' = Append(accumulated_response, line.response)
    /\ current_response' = Join(accumulated_response')
    /\ UNCHANGED <<manager, program, pc, messages, model_ready, last_probe, message, requests,
                   outcome, cycles, stop_generation, appCall, store, stop_button,
                   faults>>

\* an empty line arrives: `if line` is false
stream_empty_line ==
    /\ pc = "streaming"
    /\ streamed < MaxLines
    /\ ~StopRequested
    /\ lines' = Append(lines, EmptyLine)
    /\ streamed' = streamed + 1
    /\ UNCHANGED <<manager, program, pc, messages, model_ready, last_probe, message, requests,
                   outcome, cycles, stop_generation, appCall, store, stop_button,
                   accumulated_response, current_response, faults>>

\* a line arrives on which json.loads raises
stream_malformed(reprobe) ==
    /\ pc = "streaming"
    /\ streamed < MaxLines
    /\ ~StopRequested
    /\ streamed' = streamed + 1
    /\ UNCHANGED <<requests, stop_generation>>
    /\ chat_fault("JSONDecodeError", reprobe)

\* response.iter_lines() raises e
stream_transport_error(e, reprobe) ==
    /\ pc = "streaming"
    /\ UNCHANGED <<requests, stop_generation, streamed>>
    /\ chat_fault(e, reprobe)

\* response.iter_lines() is exhausted: return "".join(accumulated_response)
stream_end(reprobe) ==
    /\ pc = "streaming"
    /\ UNCHANGED <<requests, stop_generation, budget>>
    /\ chat_reply(Join(accumulated_response), "ok", reprobe)

\* the session's cancellation flag is raised from outside the script
request_stop ==
    /\ variant = "total"
    /\ ~stop_generation
    /\ stop_generation' = TRUE
    /\ UNCHANGED <<manager, program, pc, messages, model_ready, last_probe, message, requests,
                   outcome, cycles, appCall, store, streamCall, budget>>

\* "New Conversation" / "Clear Chat" clicked in run(): the sidebar block and
\* the rerun (reprobe: "ok" or "failed" when the rerun shows the Chat page,
\* "none" when it shows the Analysis page)
new_conversation(reprobe) ==
    /\ HasStore
    /\ pc = "idle"
    /\ uuids <= MaxConvs
    /\ messages' = <<>>
    /\ start_new_conversation(uuids + 1)
    /\ uuids' = uuids + 1
    /\ last_probe' = IF reprobe = "none" THEN last_probe ELSE reprobe
    /\ model_ready' = (model_ready \/ reprobe = "ok")
    /\ result' = IF reprobe = "none"
                 THEN analyze_conversation(<<>>, Len(conversations) + 1)
                 ELSE NoCall
    /\ UNCHANGED <<clock, program, pc, message, requests, outcome, cycles, stop_generation,
                   appCall, dbMessages, streamCall, budget>>

----------------------------------------------------------------------------
(* src/history.py: ChatHistoryManager, called by a client of the class *)

DB_PATH == "chat_history.db"
SessionIds == {"s1"}
Sentiments == {"0.5"}
TopicLists == {<<"sleep">>}
Limits == {0, 1, 10}
Formats == {"json", "txt", "csv"}
Seconds == {0, 1}                 \* values of CURRENT_TIMESTAMP, one-second resolution

\* what the script part of a session leaves alone in a ChatHistoryManager call
engine == <<program, pc, messages, model_ready, last_probe, message, requests,
            outcome, cycles, stop_generation, appCall, conversation_id, uuids,
            streamCall, budget>>


\* CURRENT_TIMESTAMP as sqlite3 hands it back: 'YYYY-MM-DD HH:MM:SS'
TsText(t) == "2024-01-01 00:00:0" \o ToString(t)

\* json.dumps of a list of strings
JsonStrings(topics) ==
    "[" \o JoinWith(", ", [i \in 1..Len(topics) |-> "\"" \o topics[i] \o "\""]) \o "]"

\* the orders in which SELECT ... ORDER BY timestamp [DESC] may return rows:
\* SQL fixes the relative order of two rows only when their sort keys differ
OrderedByTimestamp(rows, descending) ==
    LET n == Len(rows)
        Before(a, b) == IF descending THEN a.timestamp > b.timestamp
                        ELSE a.timestamp < b.timestamp
        sorted == {p \in Permutations(1..n) :
                     \A i, j \in 1..n : i < j => ~Before(rows[p[j]], rows[p[i]])}
    IN {[i \in 1..n |-> rows[p[i]]] : p \in sorted}

\* (mutant) the tables are dropped and created again
init_database_Recreates ==
    /\ variant = "history"
    /\ conversations' = <<>>
    /\ dbMessages' = <<>>
    /\ result' = Call("init_database", [db_path |-> DB_PATH], NoError, None)
    /\ UNCHANGED <<engine, clock>>

\* __init__ / init_database: CREATE TABLE IF NOT EXISTS, twice
init_database ==
    /\ variant = "history"
    /\ result' = Call("init_database", [db_path |-> DB_PATH], NoError, None)
    /\ UNCHANGED <<engine, conversations, dbMessages, clock>>

\* INSERT INTO conversations (session_id) VALUES (?); returns cursor.lastrowid
history_start_new_conversation(session_id) ==
    /\ variant = "history"
    /\ Len(conversations) + Len(dbMessages) < MaxRows
    /\ \E t \in {u \in Seconds : u >= clock} :
          /\ clock' = t
          /\ conversations' = Append(conversations,
                                     [id |-> Len(conversations) + 1,
                                      session_id |-> session_id,
                                      timestamp |-> t,
                                      sentiment |-> Null,
                                      topics |-> Null])
    /\ result' = Call("start_new_conversation", [session_id |-> session_id], NoError,
                      <<[lastrowid |-> Len(conversations) + 1]>>)
    /\ UNCHANGED <<engine, dbMessages>>

\* (mutant) the INSERT comes with an UPDATE of the conversation's sentiment
add_message_ScoresConversation(c, role, content) ==
    /\ variant = "history"
    /\ Len(conversations) + Len(dbMessages) < MaxRows
    /\ \E t \in {u \in Seconds : u >= clock} :
          /\ clock' = t
          /\ dbMessages' = Append(dbMessages,
                                  [id |-> Len(dbMessages) + 1,
                                   conversation_id |-> c,
                                   role |-> role,
                                   content |-> content,
                                   timestamp |-> t])
    /\ conversations' = [i \in 1..Len(conversations) |->
                            IF conversations[i].id = c
                            THEN [conversations[i] EXCEPT !.sentiment = "0.0"]
                            ELSE conversations[i]]
    /\ result' = Call("add_message",
                      [conversation_id |-> c, role |-> role, content |-> content],
                      NoError, None)
    /\ UNCHANGED engine

\* INSERT INTO messages (conversation_id, role, content) VALUES (?, ?, ?);
\* sqlite3 does not enforce the FOREIGN KEY clause unless PRAGMA foreign_keys
\* is switched on, which this class never does
add_message(c, role, content) ==
    /\ variant = "history"
    /\ Len(conversations) + Len(dbMessages) < MaxRows
    /\ \E t \in {u \in Seconds : u >= clock} :
          /\ clock' = t
          /\ dbMessages' = Append(dbMessages,
                                  [id |-> Len(dbMessages) + 1,
                                   conversation_id |-> c,
                                   role |-> role,
                                   content |-> content,
                                   timestamp |-> t])
    /\ result' = Call("add_message",
                      [conversation_id |-> c, role |-> role, content |-> content],
                      NoError, None)
    /\ UNCHANGED <<engine, conversations>>

\* (mutant) the WHERE clause left out
HistoryRows_AllRows(c) == dbMessages

\* ... FROM messages WHERE conversation_id = ?
HistoryRows(c) == SelectSeq(dbMessages, LAMBDA r : r.conversation_id = c)

\* SELECT role, content, timestamp ... ORDER BY timestamp, as a list of dicts
HistoryResults(c) ==
    {[i \in 1..Len(rows) |-> [role |-> rows[i].role,
                              content |-> rows[i].content,
                              timestamp |-> rows[i].timestamp]] :
        rows \in OrderedByTimestamp(HistoryRows(c), FALSE)}

get_conversation_history(c) ==
    /\ variant = "history"
    /\ \E history \in HistoryResults(c) :
          result' = Call("get_conversation_history", [conversation_id |-> c],
                         NoError, history)
    /\ UNCHANGED <<engine, conversations, dbMessages, clock>>

\* (mutant) JOIN instead of LEFT JOIN: conversations without messages drop out
RecentRows_InnerJoin ==
    LET joined == SelectSeq(conversations, LAMBDA c : HistoryRows(c.id) # <<>>)
    IN [i \in 1..Len(joined) |->
          [id |-> joined[i].id,
           session_id |-> joined[i].session_id,
           timestamp |-> joined[i].timestamp,
           message_count |-> Len(HistoryRows(joined[i].id)),
           sentiment |-> joined[i].sentiment,
           topics |-> joined[i].topics]]

\* COUNT(m.id) ... FROM conversations c LEFT JOIN messages m
\*   ON c.id = m.conversation_id GROUP BY c.id
RecentRows ==
    [i \in 1..Len(conversations) |->
        [id |-> conversations[i].id,
         session_id |-> conversations[i].session_id,
         timestamp |-> conversations[i].timestamp,
         message_count |-> Len(HistoryRows(conversations[i].id)),
         sentiment |-> conversations[i].sentiment,
         topics |-> conversations[i].topics]]

\* ... ORDER BY c.timestamp DESC LIMIT ?
RecentResults(limit) ==
    {SubSeq(rows, 1, IF limit < Len(rows) THEN limit ELSE Len(rows)) :
        rows \in OrderedByTimestamp(RecentRows, TRUE)}

get_recent_conversations(limit) ==
    /\ variant = "history"
    /\ \E frame \in RecentResults(limit) :
          result' = Call("get_recent_conversations", [limit |-> limit], NoError, frame)
    /\ UNCHANGED <<engine, conversations, dbMessages, clock>>

\* UPDATE conversations SET sentiment = ?, topics = ? WHERE id = ?
update_conversation_analysis(c, sentiment, topics) ==
    /\ variant = "history"
    /\ conversations' = [i \in 1..Len(conversations) |->
                            IF conversations[i].id = c
                            THEN [conversations[i] EXCEPT !.sentiment = sentiment,
                                                          !.topics = JsonStrings(topics)]
                            ELSE conversations[i]]
    /\ result' = Call("update_conversation_analysis",
                      [conversation_id |-> c, sentiment |-> sentiment, topics |-> topics],
                      NoError, None)
    /\ UNCHANGED <<engine, dbMessages, clock>>

\* f"{msg['role'].upper()} ({msg['timestamp']}):\n{msg['content']}"
ExportBlock(msg) ==
    (IF msg.role = "user" THEN "USER" ELSE "ASSISTANT")
        \o " (" \o TsText(msg.timestamp) \o "):\n" \o msg.content

\* one dict of json.dumps(history, indent=2)
ExportObject(msg) ==
    "  {\n    \"role\": \"" \o msg.role \o "\",\n    \"content\": \"" \o msg.content
        \o "\",\n    \"timestamp\": \"" \o TsText(msg.timestamp) \o "\"\n  }"

ExportText(history, format) ==
    IF format = "txt"
    THEN JoinWith("\n\n", [i \in 1..Len(history) |-> ExportBlock(history[i])])
    ELSE IF history = <<>> THEN "[]"
    ELSE "[\n" \o JoinWith(",\n", [i \in 1..Len(history) |-> ExportObject(history[i])])
              \o "\n]"

export_conversation(c, format) ==
    /\ variant = "history"
    /\ \E history \in HistoryResults(c) :
          result' = IF format \in {"json", "txt"}
                    THEN Call("export_conversation",
                              [conversation_id |-> c, format |-> format], NoError,
                              <<[text |-> ExportText(history, format)]>>)
                    ELSE Call("export_conversation",
                              [conversation_id |-> c, format |-> format], "ValueError",
                              None)
    /\ UNCHANGED <<engine, conversations, dbMessages, clock>>

----------------------------------------------------------------------------
(* The analysis page, and a client of the analysis functions *)

\* run() showing the Analysis page: display_analysis_page (a rerun of the
\* page on the buffer it has just analysed repeats the same call with the
\* same outcome, and is left out)
analysis_run ==
    /\ HasStore
    /\ pc = "idle"
    /\ result.op # "analyze_conversation"
    /\ result' = analyze_conversation(messages, conversation_id)
    /\ UNCHANGED <<program, pc, messages, model_ready, last_probe, message, requests,
                   outcome, cycles, stop_generation, appCall, store, streamCall,
                   budget, clock>>

\* a client calls extract_topics(text, top_n)
extract_topics_returns ==
    /\ variant = "lexical"
    /\ result.op = "pending"
    /\ "text" \in DOMAIN result.arg
    /\ result' = Call("extract_topics", result.arg, NoError,
                      <<[topics |-> extract_topics(result.arg.text, result.arg.top_n)]>>)
    /\ UNCHANGED <<engine, conversations, dbMessages, clock>>

\* a client calls determine_emotional_state(sentiment)
determine_emotional_state_returns ==
    /\ variant = "lexical"
    /\ result.op = "pending"
    /\ "sentiment" \in DOMAIN result.arg
    /\ result' = Call("determine_emotional_state", result.arg, NoError,
                      <<[emotion |-> determine_emotional_state(result.arg.sentiment)]>>)
    /\ UNCHANGED <<engine, conversations, dbMessages, clock>>

----------------------------------------------------------------------------
(* src/total-final.py: two browser sessions of the script on one database. *)
(* Each has its own st.session_state and script run; the variables hold    *)
(* those of the session being followed and parked those of the other one.  *)

\* st.session_state and the script run's position of the followed session
SessionState ==
    [started |-> TRUE,
     pc |-> pc,
     messages |-> messages,
     model_ready |-> model_ready,
     last_probe |-> last_probe,
     message |-> message,
     requests |-> requests,
     outcome |-> outcome,
     stop_generation |-> stop_generation,
     conversation_id |-> conversation_id,
     stop_button |-> stop_button,
     accumulated_response |-> accumulated_response,
     current_response |-> current_response,
     lines |-> lines]

\* a second browser session opens the script: setup_session_state fills its
\* empty st.session_state and starts its conversation
session_start ==
    /\ variant = "total"
    /\ parked = NotStarted
    /\ parked' = SessionState
    /\ messages' = <<>>
    /\ model_ready' = FALSE
    /\ current_response' = ""
    /\ start_new_conversation(uuids + 1)
    /\ uuids' = uuids + 1
    /\ stop_generation' = FALSE
    /\ pc' = "idle"
    /\ last_probe' = "none"
    /\ message' = ""
    /\ requests' = <<>>
    /\ outcome' = "none"
    /\ stop_button' = FALSE
    /\ accumulated_response' = <<>>
    /\ lines' = <<>>
    /\ UNCHANGED <<variant, cycles, appCall, dbMessages, budget, manager>>

\* the other session takes the next step: the two sessions change places
session_switch ==
    /\ variant = "total"
    /\ parked # NotStarted
    /\ parked' = SessionState
    /\ pc' = parked.pc
    /\ messages' = parked.messages
    /\ model_ready' = parked.model_ready
    /\ last_probe' = parked.last_probe
    /\ message' = parked.message
    /\ requests' = parked.requests
    /\ outcome' = parked.outcome
    /\ stop_generation' = parked.stop_generation
    /\ conversation_id' = parked.conversation_id
    /\ stop_button' = parked.stop_button
    /\ accumulated_response' = parked.accumulated_response
    /\ current_response' = parked.current_response
    /\ lines' = parked.lines
    /\ UNCHANGED <<variant, cycles, appCall, conversations, dbMessages, uuids,
                   budget, manager>>

----------------------------------------------------------------------------
(* The session *)

\* the arguments the client of the analysis functions draws
Vocabulary == {"the", "Sadness", "happy", "you're", "joy!"}
Texts ==
    {JoinWith(" ", ws) : ws \in UNION {[1..k -> Vocabulary] : k \in 0..MaxWords}}
        \cup {"the the the sadness sadness happy"}
TopNs == {0, 1, 2, 5}
SentimentInputs ==
    {-15000000, -10000001, -10000000, -8000000, -6000000, -4000000, -2000000, 0,
     2000000, 2000001, 4000000, 6000000, 8000000, 10000000, 10000001, 15000000}
PendingCalls ==
    {Call("pending", [text |-> t, top_n |-> n], NoError, None) : t \in Texts, n \in TopNs}
        \cup {Call("pending", [sentiment |-> x], NoError, None) : x \in SentimentInputs}

HistoryTurns ==
    {Turn("user", u) : u \in UserInputs} \cup {Turn("assistant", r) : r \in Replies}

\* the ids a client may pass: those of the rows, and one no row has
ClientIds == 1..(Len(conversations) + 1)

StreamLines == {Fragment(t) : t \in Tokens} \cup {NoFieldLine}

Init ==
    /\ variant \in {"app", "final", "total", "history", "lexical"}
    /\ pc = "idle"
    /\ messages = <<>>
    /\ model_ready = FALSE
    /\ last_probe = "none"
    /\ message = ""
    /\ requests = <<>>
    /\ outcome = "none"
    /\ cycles = 0
    /\ stop_generation = FALSE
    /\ retries = 0
    /\ sleeps = <<>>
    /\ attempts = <<>>
    /\ IF ~HasStore
       THEN conversations = <<>> /\ conversation_id = 0 /\ uuids = 0
       ELSE /\ conversations = <<[id |-> 1, session_id |-> 1, sentiment |-> Null,
                                  topics |-> Null, emotional_state |-> Null]>>
            /\ conversation_id = 1
            /\ uuids = 1
    /\ dbMessages = <<>>
    /\ stop_button = FALSE
    /\ accumulated_response = <<>>
    /\ current_response = ""
    /\ lines = <<>>
    /\ streamed = 0
    /\ faults = <<>>
    /\ clock = 0
    /\ IF variant = "lexical"
       THEN result \in PendingCalls
       ELSE result = Call("init_database", [db_path |-> DB_PATH], NoError, None)
    /\ parked = NotStarted

Next ==
    \/ \E u \in UserInputs \cup {NoInput}, p \in BOOLEAN : app_run(u, p)
    \/ send_message_exhausted
    \/ \E b \in Replies \cup {NoInput} : send_message_status200(b)
    \/ send_message_non200
    \/ send_message_timeout
    \/ send_message_connection_error
    \/ \E e \in {"JSONDecodeError"} : send_message_exception(e)
    \/ \E p, r \in BOOLEAN : app_clear_chat(p, r)
    \/ \E u \in UserInputs \cup {NoInput}, p, b \in BOOLEAN : chat_run(u, p, b)
    \/ stream_post_ok
    \/ \E e \in {"Timeout", "ConnectionError"}, r \in BOOLEAN : stream_post_fails(e, r)
    \/ \E r \in BOOLEAN : stream_stop(r)
    \/ \E l \in StreamLines : stream_fragment(l)
    \/ stream_empty_line
    \/ \E r \in BOOLEAN : stream_malformed(r)
    \/ \E e \in {"ChunkedEncodingError"}, r \in BOOLEAN : stream_transport_error(e, r)
    \/ \E r \in BOOLEAN : stream_end(r)
    \/ request_stop
    \/ \E r \in {"ok", "failed", "none"} : new_conversation(r)
    \/ init_database
    \/ \E sid \in SessionIds : history_start_new_conversation(sid)
    \/ \E c \in ClientIds, t \in HistoryTurns : add_message(c, t.role, t.content)
    \/ \E c \in ClientIds : get_conversation_history(c)
    \/ \E limit \in Limits : get_recent_conversations(limit)
    \/ \E c \in ClientIds, s \in Sentiments, ts \in TopicLists :
          update_conversation_analysis(c, s, ts)
    \/ \E c \in ClientIds, f \in Formats : export_conversation(c, f)
    \/ analysis_run
    \/ extract_topics_returns
    \/ determine_emotional_state_returns

Spec == Init /\ [][Next]_vars

\* one step of a pending send_message call; every HTTP request is answered,
\* times out after TIMEOUT seconds, or raises
SendStep ==
    \/ send_message_exhausted
    \/ \E b \in Replies \cup {NoInput} : send_message_status200(b)
    \/ send_message_non200
    \/ send_message_timeout
    \/ send_message_connection_error
    \/ \E e \in {"JSONDecodeError"} : send_message_exception(e)

FairSpec == Spec /\ WF_vars(SendStep)

\* two sessions of src/total-final.py on one database, the backend up: the
\* steps of a session that write to the store, with the requests between
\* them, in any interleaving
SharedInit == Init /\ variant = "total"

SharedNext ==
    \/ session_start
    \/ session_switch
    \/ \E u \in UserInputs : chat_run(u, TRUE, FALSE)
    \/ stream_post_ok
    \/ \E e \in {"ConnectionError"} : stream_post_fails(e, TRUE)
    \/ \E l \in StreamLines : stream_fragment(l)
    \/ stream_end(TRUE)
    \/ new_conversation("ok")

SharedSpec == SharedInit /\ [][SharedNext]_vars

----------------------------------------------------------------------------
(* Properties *)

\* send_message has returned and its assistant Turn is still in the buffer
AppReturned ==
    variant = "app" /\ pc = "idle" /\ outcome # "none" /\ messages # <<>>

\* the Turns of conversation c in the store, in insertion order
PersistedTurns(c) ==
    LET rows == SelectSeq(dbMessages, LAMBDA r : r.conversation_id = c)
    IN [i \in 1..Len(rows) |-> Turn(rows[i].role, rows[i].content)]

\* the 'response' fields of the non-empty lines of ls, in arrival order
Consumed(ls) ==
    LET kept == SelectSeq(ls, LAMBDA l : l.kind # "empty")
    IN [i \in 1..Len(kept) |-> kept[i].response]

\* C1: a send_message call issues at most MAX_RETRIES POSTs, every pending
\* call returns, and a call whose every attempt ended in a non-200 status or a
\* timeout returns the RetriesExhausted message as its value.
C1_SendMessageTerminates ==
    /\ [](variant = "app" =>
            /\ Len(requests) <= MAX_RETRIES
            /\ Len(attempts) = Len(requests)
            /\ (AppReturned /\ (\A i \in 1..Len(attempts) :
                                  attempts[i] \in {"non200", "Timeout"})
                  => /\ Last(messages) = Turn("assistant", RetriesExhaustedMsg)
                     /\ Len(requests) = MAX_RETRIES))
    /\ (pc = "sending") ~> (pc = "idle")

C1_Witness ==
    /\ AppReturned
    /\ attempts = <<"non200", "Timeout", "non200">>
    /\ Last(messages).content = RetriesExhaustedMsg

\* C2: a refused connection is the last attempt of its call: the call returns
\* in that step with the BackendUnavailable message and without sleeping, and
\* no other way of returning produces that message.
C2_ConnectionRefusedEndsCall ==
    variant = "app" =>
        /\ \A i \in 1..Len(attempts) :
              attempts[i] = "ConnectionError" =>
                 /\ i = Len(attempts)
                 /\ pc = "idle"
                 /\ Len(sleeps) = i - 1
                 /\ messages # <<>> => Last(messages) = Turn("assistant", BackendUnavailableMsg)
        /\ (AppReturned /\ Last(messages).content = BackendUnavailableMsg)
              => /\ attempts # <<>>
                 /\ Last(attempts) = "ConnectionError"
        /\ BackendUnavailableMsg # RetriesExhaustedMsg
        /\ (attempts # <<>> /\ Last(attempts) = "Timeout")
              => Len(sleeps) = Len(attempts) /\ Last(sleeps) = 2

C2_Witness ==
    /\ AppReturned
    /\ attempts = <<"Timeout", "ConnectionError">>
    /\ sleeps = <<2>>
    /\ Last(messages).content = BackendUnavailableMsg

\* C3: while the stop test of a streaming call is true, no step of the call
\* grows the accumulator or the shown text, and the arrival of the next line
\* ends the call: the flag is cleared and the assistant Turn holds the
\* concatenation of the fragments consumed before, as a reply and not through
\* the exception path.
C3_StopCheckedBeforeEachFragment ==
    [][(pc = "streaming" /\ variant = "total" /\ (stop_button \/ stop_generation))
         => /\ pc' = "streaming"
                 => /\ accumulated_response' = accumulated_response
                    /\ current_response' = current_response
            /\ streamed' = streamed + 1
                 => /\ pc' = "idle"
                    /\ ~stop_generation'
                    /\ faults' = faults
                    /\ messages' = Append(messages,
                                          Turn("assistant", Join(Consumed(lines))))]_vars

C3_Witness ==
    /\ variant = "total"
    /\ pc = "idle"
    /\ outcome = "stopped"
    /\ streamed = 2
    /\ Last(messages).role = "assistant"
    /\ Last(messages).content \in Tokens

\* C4: when the cancellation flag is observed after at least one fragment was
\* consumed, that step completes the cycle: the assistant Turn with exactly the
\* accumulated text goes to the buffer and to the store under the active
\* conversation, no exception is recorded, and the engine is Idle.
C4_CancelAfterFirstFragment ==
    [][(pc = "streaming" /\ stop_generation /\ Len(accumulated_response) >= 1
          /\ streamed' = streamed + 1)
         => /\ pc' = "idle"
            /\ faults' = faults
            /\ conversation_id' = conversation_id
            /\ messages' = Append(messages,
                                  Turn("assistant", Join(accumulated_response)))
            /\ dbMessages' = Append(dbMessages,
                                    [conversation_id |-> conversation_id,
                                     role |-> "assistant",
                                     content |-> Join(accumulated_response)])]_vars

C4_Witness ==
    /\ pc = "idle"
    /\ outcome = "stopped"
    /\ Len(messages) = 2
    /\ messages[1].role = "user"
    /\ messages[2] = Turn("assistant", "b")
    /\ Last(dbMessages) = [conversation_id |-> conversation_id,
                           role |-> "assistant", content |-> "b"]

\* C5: during a streamed call the shown text is the concatenation, in arrival
\* order, of the 'response' fields of the non-empty lines received so far
\* (empty lines change nothing), and a call that ends with the stream returns
\* the concatenation of all of them.
C5_PartialIsConcatenation ==
    /\ [](/\ pc = "streaming"
               => /\ accumulated_response = Consumed(lines)
                  /\ current_response = Join(Consumed(lines))
          /\ Join(<<"I'm", " glad", " to hear that.">>) = "I'm glad to hear that.")
    /\ [][(pc = "streaming" /\ pc' = "idle" /\ streamed' = streamed
             /\ faults' = faults)
            => Last(messages') = Turn("assistant", Join(Consumed(lines)))]_vars

C5_Witness ==
    /\ pc = "streaming"
    /\ lines = <<Fragment("a"), Fragment("b")>>
    /\ current_response = "ab"

\* the step ends a generate call in a terminal failure: retries exhausted, a
\* refused connection or another exception in send_message, or any exception
\* in stream_response
TerminalFailure ==
    \/ variant = "app" /\ pc = "sending" /\ retries >= MAX_RETRIES
    \/ /\ variant = "app"
       /\ Len(attempts') > Len(attempts)
       /\ Last(attempts') \notin {"200", "non200", "Timeout"}
    \/ Len(faults') > Len(faults)

\* the text the failing step hands back
FailureText ==
    IF variant = "app"
    THEN IF Len(attempts') = Len(attempts) THEN RetriesExhaustedMsg
         ELSE IF Last(attempts') = "ConnectionError" THEN BackendUnavailableMsg
         ELSE ErrorText(Last(attempts'))
    ELSE ErrorText(Last(faults'))

\* C6: a step in which a generate call fails terminally completes the cycle:
\* one assistant Turn carrying the error text is appended right after the
\* user Turn (and saved where the script has a store) and the engine is Idle.
C6_FailureCompletesCycle ==
    [][TerminalFailure
         => /\ pc' = "idle"
            /\ messages # <<>>
            /\ Last(messages).role = "user"
            /\ messages' = Append(messages, Turn("assistant", FailureText))
            /\ HasStore
                 => /\ Last(dbMessages) = [conversation_id |-> conversation_id,
                                           role |-> "user",
                                           content |-> Last(messages).content]
                    /\ dbMessages' = Append(dbMessages,
                                            [conversation_id |-> conversation_id,
                                             role |-> "assistant",
                                             content |-> FailureText])]_vars

C6_Witness ==
    /\ AppReturned
    /\ Last(attempts) = "JSONDecodeError"
    /\ Len(messages) >= 2
    /\ messages[Len(messages) - 1].role = "user"
    /\ Last(messages) = Turn("assistant", ErrorText("JSONDecodeError"))

\* C7: a POST to the generation endpoint is issued only with model_ready set
\* and the session's latest health probe successful, and a script run whose
\* probe fails appends no Turn, saves nothing and posts nothing.
C7_ProbeGatesGeneration ==
    [][/\ Len(requests') > Len(requests)
            => model_ready /\ last_probe = "ok"
       /\ (pc = "idle" /\ last_probe' = "failed")
            => /\ pc' = "idle"
               /\ requests' = requests
               /\ dbMessages' = dbMessages
               /\ cycles' = cycles
               /\ messages' \in {messages, <<>>}]_vars

C7_Witness ==
    /\ HasStore
    /\ last_probe = "failed"
    /\ ~model_ready
    /\ cycles = 0
    /\ messages = <<>>
    /\ dbMessages = <<>>
    /\ requests = <<>>

\* C8: the attempt that ends send_message with the BackendUnavailable message
\* leaves model_ready false.
C8_BackendUnavailableClearsReadiness ==
    [][(variant = "app" /\ Len(attempts') > Len(attempts)
          /\ Last(attempts') = "ConnectionError")
         => ~model_ready']_vars

C10_BufferMatchesStore ==
    HasStore =>
        /\ Len(dbMessages) = IF pc = "idle" THEN 2 * cycles ELSE 2 * cycles - 1
        /\ \A i \in 1..Len(dbMessages) :
              /\ dbMessages[i].role = IF i % 2 = 1 THEN "user" ELSE "assistant"
              /\ i % 2 = 0 =>
                    dbMessages[i].conversation_id = dbMessages[i - 1].conversation_id
        /\ pc = "idle" => messages = PersistedTurns(conversation_id)

C10_Witness ==
    /\ HasStore
    /\ pc = "idle"
    /\ conversation_id = 2
    /\ Len(messages) = 2
    /\ Len(dbMessages) = 4
    /\ messages = PersistedTurns(2)

\* the ids of the rows of table conversations
ConversationIds == {conversations[i].id : i \in 1..Len(conversations)}

\* C11: every prompt POSTed for a submission is the preamble, the 'Role:
\* content' lines of the last min(5, n) Turns the buffer held before the
\* submission, and the new message.
C11_PromptFromPriorWindow ==
    [][Len(requests') > Len(requests)
         => LET prior == SubSeq(messages, 1, Len(messages) - 1)
                window == LastN(prior, ContextTurns)
                context == JoinWith("\n", [i \in 1..Len(window) |->
                                                ContextLine(window[i])])
            IN /\ Last(messages) = Turn("user", message)
               /\ Last(requests') = "Context:\n" \o context \o "\n\nUser: "
                                        \o message \o "\nAssistant:"]_vars

\* C12: a reset (a fresh uuid is drawn and a conversation started) makes a
\* row whose id no earlier row has the active conversation, empties the
\* buffer, and leaves table messages, and so the persisted Turns of every
\* earlier conversation, as they were.
C12_ResetAllocatesFreshConversation ==
    [][uuids' # uuids
         => /\ conversation_id' \notin ConversationIds
            /\ conversation_id' # conversation_id
            /\ conversation_id' \in ConversationIds'
            /\ messages' = <<>>
            /\ dbMessages' = dbMessages
            /\ \A c \in ConversationIds : PersistedTurns(c)' = PersistedTurns(c)]_vars

C12_Witness ==
    /\ HasStore
    /\ uuids = 2
    /\ conversation_id = 2
    /\ messages = <<>>
    /\ Len(PersistedTurns(1)) = 2
    /\ PersistedTurns(2) = <<>>

\* C13: the active conversation id of a script with a store is always the id
\* of a row of table conversations.
C13_ActiveConversationExists ==
    HasStore => conversation_id \in ConversationIds

C13_Witness ==
    /\ HasStore
    /\ uuids = 2
    /\ conversation_id = 2
    /\ pc = "streaming"
    /\ Len(conversations) = 2

\* the step is a call of ChatHistoryManager's method op
ManagerCall(op) == variant = "history" /\ result'.op = op

\* C14: add_message with a conversation id that no row of conversations has
\* raises UnknownConversation and inserts no row.
C14_AppendToUnknownConversationFails ==
    [][(ManagerCall("add_message") /\ result'.arg.conversation_id \notin ConversationIds)
         => /\ result'.raised = "UnknownConversation"
            /\ dbMessages' = dbMessages]_vars

\* C15: update_conversation_analysis sets the rollup of the named conversation
\* to the given values and leaves every other row as it was; with an id that
\* names no conversation it raises UnknownConversation.
C15_UpdateAnalyticsOverwritesOrFails ==
    [][ManagerCall("update_conversation_analysis")
         => LET arg == result'.arg
            IN IF arg.conversation_id \in ConversationIds
               THEN /\ result'.raised = NoError
                    /\ Len(conversations') = Len(conversations)
                    /\ \A i \in 1..Len(conversations) :
                          conversations'[i] =
                             IF conversations[i].id = arg.conversation_id
                             THEN [conversations[i] EXCEPT
                                      !.sentiment = arg.sentiment,
                                      !.topics = JsonStrings(arg.topics)]
                             ELSE conversations[i]
               ELSE result'.raised = "UnknownConversation"]_vars

C17_ReadTurnsExactlyOwnTurns ==
    [][ManagerCall("get_conversation_history")
         => LET history == result'.value
                own == {j \in 1..Len(dbMessages) :
                          dbMessages[j].conversation_id = result'.arg.conversation_id}
            IN /\ result'.raised = NoError
               /\ Len(history) = Cardinality(own)
               /\ \E f \in [1..Len(history) -> own] :
                     /\ \A i, j \in 1..Len(history) : i # j => f[i] # f[j]
                     /\ \A i \in 1..Len(history) :
                           history[i] = [role |-> dbMessages[f[i]].role,
                                         content |-> dbMessages[f[i]].content,
                                         timestamp |-> dbMessages[f[i]].timestamp]
               /\ own = {} => history = <<>>]_vars

C17_Witness ==
    /\ variant = "history"
    /\ result.op = "get_conversation_history"
    /\ result.arg.conversation_id = 1
    /\ Len(dbMessages) = 2
    /\ dbMessages[1].conversation_id = 2
    /\ dbMessages[2].conversation_id = 1
    /\ Len(result.value) = 1
    /\ result.value[1].content = dbMessages[2].content

\* C18: no step deletes a row of conversations or messages or changes the
\* identity of a conversation or the conversation, role or content of a Turn:
\* both tables only grow at the end, and in the scripts a conversation other
\* than the active one neither gains nor loses Turns.
C18_StoreIsAppendOnly ==
    [][/\ Len(conversations') >= Len(conversations)
       /\ \A i \in 1..Len(conversations) :
             /\ conversations'[i].id = conversations[i].id
             /\ conversations'[i].session_id = conversations[i].session_id
             /\ variant = "history"
                   => conversations'[i].timestamp = conversations[i].timestamp
       /\ Len(dbMessages') >= Len(dbMessages)
       /\ SubSeq(dbMessages', 1, Len(dbMessages)) = dbMessages
       /\ HasStore => \A c \in ConversationIds \ {conversation_id} :
                         PersistedTurns(c)' = PersistedTurns(c)]_vars

C18_Witness ==
    /\ HasStore
    /\ pc = "streaming"
    /\ conversation_id = 2
    /\ Len(PersistedTurns(1)) = 2
    /\ Len(PersistedTurns(2)) = 1

\* C19: init_database on a store that holds rows raises nothing and leaves
\* both tables as they were.
C19_SchemaInitIsIdempotent ==
    [][ManagerCall("init_database")
         => /\ result'.raised = NoError
            /\ conversations' = conversations
            /\ dbMessages' = dbMessages]_vars

C19_Witness ==
    /\ variant = "history"
    /\ result.op = "init_database"
    /\ Len(conversations) >= 1
    /\ Len(dbMessages) >= 2

\* C20: get_recent_conversations(limit), limit a natural number, returns
\* min(limit, number of conversations) rows of distinct conversations with
\* non-increasing timestamps, none of the conversations left out being newer
\* than one returned; each row carries its conversation's columns and the
\* number of rows of messages under its id (0 when there is none); the tables
\* are not changed.
C20_RecentConversationsSummary ==
    [][ManagerCall("get_recent_conversations")
         => LET limit == result'.arg.limit
                frame == result'.value
                n == Len(conversations)
                shown == {frame[i].id : i \in 1..Len(frame)}
            IN /\ Len(frame) <= limit
               /\ Len(frame) = IF limit < n THEN limit ELSE n
               /\ \A i, j \in 1..Len(frame) :
                     i < j => /\ frame[i].timestamp >= frame[j].timestamp
                              /\ frame[i].id # frame[j].id
               /\ \A i \in 1..Len(frame) :
                     \E k \in 1..n :
                        /\ frame[i].id = conversations[k].id
                        /\ frame[i].session_id = conversations[k].session_id
                        /\ frame[i].timestamp = conversations[k].timestamp
                        /\ frame[i].sentiment = conversations[k].sentiment
                        /\ frame[i].topics = conversations[k].topics
                        /\ frame[i].message_count =
                              Cardinality({j \in 1..Len(dbMessages) :
                                  dbMessages[j].conversation_id = frame[i].id})
               /\ \A k \in 1..n :
                     conversations[k].id \notin shown
                        => \A i \in 1..Len(frame) :
                              frame[i].timestamp >= conversations[k].timestamp
               /\ conversations' = conversations
               /\ dbMessages' = dbMessages]_vars

C20_Witness ==
    /\ variant = "history"
    /\ result.op = "get_recent_conversations"
    /\ result.arg.limit = 10
    /\ Len(result.value) = 2
    /\ result.value[1].timestamp > result.value[2].timestamp
    /\ result.value[1].message_count = 0
    /\ result.value[2].message_count = 1

\* C23: for a sentiment in [-1, 1] determine_emotional_state returns the label
\* of the partition Very Sad [-1,-0.6], Sad (-0.6,-0.2], Neutral (-0.2,0.2],
\* Happy (0.2,0.6], Very Happy (0.6,1]: a value two ranges share belongs to
\* the lower one.
C23_BoundariesInLowerBucket ==
    (/\ result.op = "determine_emotional_state"
     /\ -10000000 <= result.arg.sentiment
     /\ result.arg.sentiment <= 10000000)
        => LET s == result.arg.sentiment
           IN /\ result.raised = NoError
              /\ result.value[1].emotion =
                    IF s <= -6000000 THEN "Very Sad"
                    ELSE IF s <= -2000000 THEN "Sad"
                    ELSE IF s <= 2000000 THEN "Neutral"
                    ELSE IF s <= 6000000 THEN "Happy"
                    ELSE "Very Happy"

\* C24: determine_emotional_state never raises, labels every sentiment below
\* -1 Very Sad and every sentiment above 1 Very Happy.
C24_OutOfDomainClamped ==
    result.op = "determine_emotional_state"
        => /\ result.raised = NoError
           /\ result.arg.sentiment < -10000000 => result.value[1].emotion = "Very Sad"
           /\ result.arg.sentiment > 10000000 => result.value[1].emotion = "Very Happy"

\* C25: extract_topics(text, top_n) returns at most top_n words, no word
\* twice, each one a word of the lowercased text without its punctuation,
\* itself lowercase, longer than 3 characters and not a stop word; when every
\* word of the text is a stop word or has 3 characters or fewer (none at all
\* for the empty text) it returns the empty list.
C25_TopicsAreKeptTokens ==
    result.op = "extract_topics"
        => LET topics == result.value[1].topics
               tokens == Split(StripPunctuation(Lower(result.arg.text)))
           IN /\ result.raised = NoError
              /\ Len(topics) <= result.arg.top_n
              /\ \A i, j \in 1..Len(topics) : i # j => topics[i] # topics[j]
              /\ \A i \in 1..Len(topics) :
                    /\ \E k \in 1..Len(tokens) : tokens[k] = topics[i]
                    /\ Lower(topics[i]) = topics[i]
                    /\ Len(topics[i]) > 3
                    /\ topics[i] \notin stop_words
              /\ (\A k \in 1..Len(tokens) :
                     tokens[k] \in stop_words \/ Len(tokens[k]) <= 3)
                    => topics = <<>>

C25_Witness ==
    /\ result.op = "extract_topics"
    /\ result.arg.text = "the joy! Sadness"
    /\ result.arg.top_n = 5
    /\ result.value[1].topics = <<"sadness">>

\* C26: the words extract_topics returns are in descending order of their
\* count among the kept words, equal counts in order of first occurrence; a
\* kept word left out has no higher count than a returned one, and at an
\* equal count occurs first after it;
\* extract_topics("the the the sadness sadness happy", 2) is
\* ["sadness", "happy"].
C26_TopicsByFrequencyThenFirstOccurrence ==
    result.op = "extract_topics"
        => LET topics == result.value[1].topics
               kept == KeptWords(Split(StripPunctuation(Lower(result.arg.text))))
               First(w) == CHOOSE k \in 1..Len(kept) :
                              kept[k] = w /\ \A m \in 1..(k - 1) : kept[m] # w
               Ahead(v, w) == \/ Count(kept, v) > Count(kept, w)
                              \/ Count(kept, v) = Count(kept, w) /\ First(v) < First(w)
           IN /\ \A i, j \in 1..Len(topics) : i < j => Ahead(topics[i], topics[j])
              /\ \A k \in 1..Len(kept) :
                    (\A i \in 1..Len(topics) : topics[i] # kept[k])
                       => \A i \in 1..Len(topics) : Ahead(topics[i], kept[k])
              /\ (result.arg.text = "the the the sadness sadness happy"
                     /\ result.arg.top_n = 2)
                    => topics = <<"sadness", "happy">>

C26_Witness ==
    /\ result.op = "extract_topics"
    /\ result.arg.text = "happy Sadness Sadness"
    /\ result.arg.top_n = 2
    /\ result.value[1].topics = <<"sadness", "happy">>

\* C27: within one call of send_message, the attempt answered by a status
\* other than 200 is followed by a sleep of exactly 1 and the attempt that
\* timed out by a sleep of exactly 2, nothing else sleeps, every attempt posts
\* the same prompt, and an attempt answered by status 200 is the last one:
\* no sleep follows it and the call has returned.
C27_BackoffByFailureKind ==
    variant = "app"
        => /\ Len(requests) = Len(attempts)
           /\ \A i \in 1..Len(requests) : requests[i] = requests[1]
           /\ Len(sleeps) =
                 Cardinality({i \in 1..Len(attempts) : attempts[i] \in {"non200", "Timeout"}})
           /\ \A i \in 1..Len(attempts) :
                 /\ attempts[i] = "non200" => i <= Len(sleeps) /\ sleeps[i] = 1
                 /\ attempts[i] = "Timeout" => i <= Len(sleeps) /\ sleeps[i] = 2
                 /\ attempts[i] = "200"
                       => /\ i = Len(attempts)
                          /\ Len(sleeps) = i - 1
                          /\ pc = "idle"

C27_Witness ==
    /\ variant = "app"
    /\ attempts = <<"Timeout", "non200", "200">>
    /\ sleeps = <<2, 1>>
    /\ Len(requests) = 3
    /\ pc = "idle"

\* C30: whenever no reply is awaited the buffer has even length and its Turns
\* alternate user, assistant, user, assistant, ..., the first one (if any) a
\* user Turn and the last one an assistant Turn.
C30_IdleBufferAlternates ==
    (variant \in {"app", "final", "total"} /\ pc = "idle")
        => /\ Len(messages) % 2 = 0
           /\ \A i \in 1..Len(messages) :
                 messages[i].role = IF i % 2 = 1 THEN "user" ELSE "assistant"

C30_Witness ==
    /\ variant \in {"app", "final", "total"}
    /\ pc = "idle"
    /\ Len(messages) = 4
    /\ messages[3].role = "user"
    /\ messages[4].role = "assistant"

\* C21: once the analysis of the buffer has returned a bundle, the row of the
\* active conversation holds the bundle's sentiment, its topics (as JSON
\* text) and, where the bundle has one, its emotional state.
C21_AnalysisWrittenToStore ==
    (/\ result.op = "analyze_conversation"
     /\ result.value # None
     /\ result.arg.conversation_id = conversation_id)
        => LET analysis == result.value[1]
               row == conversations[conversation_id]
           IN /\ row.sentiment # Null
              /\ row.sentiment = analysis.sentiment
              /\ row.topics # Null
              /\ row.topics = JsonStrings(analysis.topics)
              /\ variant = "total"
                    => /\ row.emotional_state # Null
                       /\ row.emotional_state = analysis.emotional_state

\* C22: the bundle's sentiment, topics and emotional state are those of the
\* contents of the user Turns joined by a space, whatever the assistant Turns
\* hold; its word counts are those of every Turn in buffer order, its total
\* the number of Turns and its mean their quotient.
C22_SentimentOverUserTurnsOnly ==
    (result.op = "analyze_conversation" /\ result.value # None)
        => LET analysis == result.value[1]
               msgs == result.arg.messages
               user_text == JoinWith(" ", Contents(msgs, {"user"}))
               lengths == [i \in 1..Len(msgs) |-> Len(Split(msgs[i].content))]
           IN /\ analysis.sentiment = analyze_sentiment(user_text)
              /\ analysis.topics = extract_topics(user_text, DefaultTopN)
              /\ "emotional_state" \in DOMAIN analysis
                    => analysis.emotional_state =
                          determine_emotional_state(analyze_sentiment(user_text))
              /\ analysis.message_lengths = lengths
              /\ analysis.total_messages = Len(msgs)
              /\ analysis.avg_message_length = Quotient(Sum(lengths), Len(msgs))

\* C28: analyze_conversation raises nothing; on an empty buffer it returns
\* None, and on a buffer of n > 0 Turns a bundle whose mean message length is
\* the sum of the Turns' word counts over n.
C28_AnalysisNeedsATurn ==
    result.op = "analyze_conversation"
        => LET msgs == result.arg.messages
               lengths == [i \in 1..Len(msgs) |-> Len(Split(msgs[i].content))]
           IN /\ result.raised = NoError
              /\ msgs = <<>> => result.value = None
              /\ msgs # <<>>
                    => /\ result.value # None
                       /\ result.value[1].message_lengths = lengths
                       /\ result.value[1].avg_message_length.den > 0
                       /\ result.value[1].avg_message_length.num * Len(msgs)
                             = Sum(lengths) * result.value[1].avg_message_length.den

C28_Witness ==
    /\ result.op = "analyze_conversation"
    /\ Len(result.arg.messages) = 2
    /\ result.value # None
    /\ result.value[1].message_lengths = <<1, 3>>
    /\ result.value[1].avg_message_length = [num |-> 2, den |-> 1]

\* C29: a step changes the sentiment, topics or emotional state of an
\* existing conversation only if it is update_conversation_analysis called
\* for that conversation; no step removes a conversation, and a conversation
\* a step creates has all of them NULL.
C29_RollupChangedOnlyByAnalysis ==
    [][/\ Len(conversations') >= Len(conversations)
       /\ \A c \in 1..Len(conversations') :
             LET fields == DOMAIN conversations'[c]
                              \cap {"sentiment", "topics", "emotional_state"}
             IN IF c > Len(conversations)
                THEN \A f \in fields : conversations'[c][f] = Null
                ELSE (\E f \in fields : conversations'[c][f] # conversations[c][f])
                        => /\ result'.op = "update_conversation_analysis"
                           /\ result'.arg.conversation_id = conversations[c].id]_vars

C29_Witness ==
    /\ variant = "history"
    /\ result.op = "add_message"
    /\ Len(conversations) = 2
    /\ conversations[1].sentiment # Null
    /\ conversations[2].sentiment = Null
    /\ dbMessages # <<>>

\* C32: a streamed call that ends in an exception (a line that does not
\* parse, or the transport failing) after at least one fragment was
\* accumulated returns the error text alone: the assistant Turn appended to
\* the buffer and the row saved for the cycle hold "Error: " and the
\* exception's text, and nothing of the accumulated fragments.
C32_FaultDropsAccumulatedFragments ==
    [][(/\ pc = "streaming"
        /\ Len(accumulated_response) >= 1
        /\ Len(faults') = Len(faults) + 1)
         => /\ pc' = "idle"
            /\ outcome' = "error"
            /\ messages' = Append(messages,
                                  Turn("assistant", "Error: " \o ExcText(Last(faults'))))
            /\ dbMessages' = Append(dbMessages,
                                    [conversation_id |-> conversation_id,
                                     role |-> "assistant",
                                     content |-> "Error: " \o ExcText(Last(faults'))])]_vars

C32_Witness ==
    /\ HasStore
    /\ pc = "idle"
    /\ outcome = "error"
    /\ faults = <<"JSONDecodeError">>
    /\ streamed = 2
    /\ cycles = 1
    /\ Len(messages) = 2
    /\ messages[2] = Turn("assistant", "Error: Expecting value: line 1 column 1 (char 0)")
    /\ Last(dbMessages).content = messages[2].content

\* C33: the step in which stream_response stops on a set stop_generation
\* flag leaves the flag false; the flag becomes true only by a request from
\* outside the script; and a call is stopped only when the flag or the call's
\* own stop button is set. A submission after a stop, with no new request,
\* is therefore not stopped.
C33_StopFlagConsumed ==
    [][/\ (pc = "streaming" /\ stop_generation /\ pc' = "idle" /\ outcome' = "stopped")
            => ~stop_generation'
       /\ (~stop_generation /\ stop_generation')
            => /\ variant = "total"
               /\ UNCHANGED <<pc, messages, message, requests, outcome, cycles,
                              store, streamCall, budget>>
       /\ (pc = "streaming" /\ pc' = "idle" /\ outcome' = "stopped")
            => (stop_button \/ stop_generation)]_vars

C33_Witness ==
    /\ variant = "total"
    /\ pc = "idle"
    /\ ~stop_generation
    /\ outcome = "ok"
    /\ streamed = 2
    /\ Len(messages) = 4
    /\ messages[2] = Turn("assistant", "")
    /\ messages[4] = Turn("assistant", "a")

====
